---------------------------- MODULE Spec2Model ----------------------------
(***************************************************************************)
(* A model of src/extract.py: GoogleMapsReviewScraper, the paginated fetch *)
(* loop scrape_all_reviews and the helpers it calls.                       *)
(*                                                                         *)
(* Python values are modelled as tagged records ("nodes") so that values   *)
(* of different Python types can be held and compared in one variable.    *)
(* Python strings are sequences of one-character strings.                  *)
(***************************************************************************)
EXTENDS Integers, Sequences, FiniteSets, TLC

---------------------------------------------------------------------------
(* Bounds of the model *)

\* page fetches (calls of _scrape_reviews_batch) one session may issue
MaxFetches == 3
\* largest caller-supplied page limit tried
MaxPageLimit == 2
\* largest retry ceiling (max_retries) tried
MaxRetries == 1

\* most unexpected errors raised inside _extract_review_data in one session
MaxFaults == 1

---------------------------------------------------------------------------
(* Python / JSON values *)

None == [t |-> "null", s |-> <<>>, n |-> 0, l |-> <<>>]
StrV(cs) == [t |-> "str", s |-> cs, n |-> 0, l |-> <<>>]
IntV(k) == [t |-> "int", s |-> <<>>, n |-> k, l |-> <<>>]
List(xs) == [t |-> "list", s |-> <<>>, n |-> 0, l |-> xs]
\* a JSON object; its keys are strings, l holds its values
Dict(vals) == [t |-> "dict", s |-> <<>>, n |-> 0, l |-> vals]

\* Python truthiness: `not x` is ~Truthy(x)
Truthy(x) ==
    CASE x.t = "null" -> FALSE
      [] x.t = "str"  -> x.s # <<>>
      [] x.t = "int"  -> x.n # 0
      [] x.t = "list" -> x.l # <<>>
      [] x.t = "dict" -> x.l # <<>>
      [] OTHER -> TRUE

\* objects len() accepts; for the others len() raises TypeError
HasLen(x) == x.t \in {"str", "list", "dict"}

PyLen(x) == IF x.t = "str" THEN Len(x.s) ELSE Len(x.l)

\* x[i] with i >= 0 raises (IndexError, KeyError, TypeError) when this is FALSE
CanIndex(x, i) ==
    /\ x.t \in {"str", "list"}
    /\ i < PyLen(x)

\* x[i] for i >= 0, where CanIndex(x, i)
Index(x, i) == IF x.t = "str" THEN StrV(<<x.s[i + 1]>>) ELSE x.l[i + 1]

UpperChars == <<"A","B","C","D","E","F","G","H","I","J","K","L","M",
                "N","O","P","Q","R","S","T","U","V","W","X","Y","Z">>
LowerChars == <<"a","b","c","d","e","f","g","h","i","j","k","l","m",
                "n","o","p","q","r","s","t","u","v","w","x","y","z">>

LowerChar(c) ==
    IF \E i \in 1..Len(UpperChars) : UpperChars[i] = c
    THEN LowerChars[CHOOSE i \in 1..Len(UpperChars) : UpperChars[i] = c]
    ELSE c

\* str.lower()
Lower(cs) == [i \in 1..Len(cs) |-> LowerChar(cs[i])]

TRIPADVISOR == <<"t","r","i","p","a","d","v","i","s","o","r">>

---------------------------------------------------------------------------
(* _safe_extract and _extract_review_data *)

RECURSIVE safe_extract(_, _)
safe_extract(data, path) ==
    IF path = <<>> THEN data
    ELSE LET key == Head(path)
             absk == IF key < 0 THEN -key ELSE key
         IN IF data.t = "list" /\ Len(data.l) > absk
            THEN safe_extract(
                   IF key >= 0 THEN data.l[key + 1]
                               ELSE data.l[Len(data.l) + key + 1],
                   Tail(path))
            ELSE None   \* a dict never holds an integer key (JSON keys are strings)

UserPath == <<0, 1, 4, 5, 0>>
PublishedAtPath == <<0, 1, 6>>
SourcePath == <<0, 1, 13, -2>>
RatingPath == <<0, 1, 13, -1>>
ContentPath == <<0, 2, 15, 0, 0>>

Paths == {UserPath, PublishedAtPath, SourcePath, RatingPath, ContentPath}

\* the path leads to an element: at every step a list with len > abs(key)
RECURSIVE CanDescend(_, _)
CanDescend(data, path) ==
    \/ path = <<>>
    \/ LET key == Head(path)
           absk == IF key < 0 THEN -key ELSE key
       IN /\ data.t = "list"
          /\ Len(data.l) > absk
          /\ CanDescend(IF key >= 0 THEN data.l[key + 1]
                                    ELSE data.l[Len(data.l) + key + 1],
                        Tail(path))

\* (mutant) _safe_extract lets the error of a failed descent out
SafeExtractRaises_Undescendable(data, path) == ~CanDescend(data, path)

\* an exception leaves _safe_extract: never, the guards keep every index in
\* range and IndexError, TypeError and KeyError are caught
SafeExtractRaises(data, path) == FALSE

\* ReviewData(None, None, None, None, None)
AbsentReview ==
    [user |-> None, published_at |-> None, source |-> None, rating |-> None,
     content |-> None]

\* the try of _extract_review_data: the five arguments are evaluated, then
\* ReviewData is built; `except Exception` returns the all-None record
extract_review_data(review) ==
    IF \E path \in Paths : SafeExtractRaises(review, path)
    THEN AbsentReview
    ELSE [user |-> safe_extract(review, UserPath),
          published_at |-> safe_extract(review, PublishedAtPath),
          source |-> safe_extract(review, SourcePath),
          rating |-> safe_extract(review, RatingPath),
          content |-> safe_extract(review, ContentPath)]

---------------------------------------------------------------------------
(* _validate_url, _extract_business_id, _generate_reviews_url *)

(* A location URL is its host (urlparse(url).netloc) and the text after   *)
(* the host, a sequence of characters.  The two patterns are searched in  *)
(* that text: no host of the model holds the marker or an identifier.     *)

AllowedNetlocs == {"maps.google.com", "www.google.com"}

\* (mutant) every host is accepted
validate_url_Any(url) == TRUE

validate_url(url) == url.netloc \in AllowedNetlocs

\* [a-f0-9]
HexChars == {"a", "b", "c", "d", "e", "f",
             "0", "1", "2", "3", "4", "5", "6", "7", "8", "9"}

\* the length of what [a-f0-9]+ takes at position i, greedily; 0 when nothing
RECURSIVE HexRun(_, _)
HexRun(text, i) ==
    IF i >= 1 /\ i <= Len(text) /\ text[i] \in HexChars
    THEN 1 + HexRun(text, i + 1)
    ELSE 0

HasAt(text, i, lit) ==
    /\ i >= 1
    /\ i + Len(lit) - 1 <= Len(text)
    /\ SubSeq(text, i, i + Len(lit) - 1) = lit

\* the length of the match of 0x[a-f0-9]+:0x[a-f0-9]+ at position i, 0 when
\* there is none (giving back characters of a run never helps: what follows a
\* run cut short is a hex digit, and the pattern wants ':' or the end)
MatchIdAt(text, i) ==
    LET run1 == HexRun(text, i + 2)
        colon == i + 2 + run1
        run2 == HexRun(text, colon + 3)
    IN IF /\ HasAt(text, i, <<"0", "x">>)
          /\ run1 >= 1
          /\ HasAt(text, colon, <<":", "0", "x">>)
          /\ run2 >= 1
       THEN 5 + run1 + run2
       ELSE 0

\* None, as a business identifier
NoBusinessId == <<>>

\* (mutant) the fallback pattern is tried before the marker pattern
extract_business_id_BareFirst(url) ==
    LET text == url.text
        B == {i \in 1..Len(text) : MatchIdAt(text, i) > 0}
        first == CHOOSE i \in B : \A j \in B : i <= j
    IN IF B # {} THEN SubSeq(text, first, first + MatchIdAt(text, first) - 1)
       ELSE NoBusinessId

\* re.search of the marker pattern, then re.findall(...)[0] of the bare one
extract_business_id(url) ==
    LET text == url.text
        A == {i \in 1..Len(text) :
                 HasAt(text, i, <<"1", "s">>) /\ MatchIdAt(text, i + 2) > 0}
        B == {i \in 1..Len(text) : MatchIdAt(text, i) > 0}
        firstA == CHOOSE i \in A : \A j \in A : i <= j
        firstB == CHOOSE i \in B : \A j \in B : i <= j
    IN IF A # {}
       THEN SubSeq(text, firstA + 2, firstA + 1 + MatchIdAt(text, firstA + 2))
       ELSE IF B # {}
       THEN SubSeq(text, firstB, firstB + MatchIdAt(text, firstB) - 1)
       ELSE NoBusinessId

\* the text an f-string puts in place of {x}
Format(x) ==
    CASE x.t = "str" -> x.s
      [] x.t = "null" -> <<"N", "o", "n", "e">>
      [] x.t = "int" /\ x.n \in 0..9 ->
             <<<<"0","1","2","3","4","5","6","7","8","9">>[x.n + 1]>>
      [] OTHER -> <<"?">>

\* a request URL: the literal pieces of the template around the two holes
NoUrl == [none |-> TRUE, base |-> "", pb1 |-> "", id |-> <<>>, pb2 |-> "",
          token |-> <<>>, pb3 |-> ""]

UrlBase == "https://www.google.com/maps/rpc/listugcposts?authuser=0&hl=en&gl=us&pb="
PbTail == "!5m2!1sxkx7aMKiOLKshbIPoZm1sAk!7e81!8m9!2b1!3b1!5b1!7b1!12m4!1b1!2b1!4m1!1e1!11m0!13m1!1e1"

\* (mutant) the TripAdvisor template is used for the first page only
BuildUrl_FilterFirstPage(business_id, token, tripadvisor_filter) ==
    IF tripadvisor_filter /\ Format(token) = <<>>
    THEN [none |-> FALSE, base |-> UrlBase, pb1 |-> "!1m7!1s",
          id |-> business_id,
          pb2 |-> "!6m4!4m1!1e1!4m1!1e3!13i100532569!2m2!1i10!2s",
          token |-> Format(token), pb3 |-> PbTail]
    ELSE [none |-> FALSE, base |-> UrlBase, pb1 |-> "!1m6!1s",
          id |-> business_id,
          pb2 |-> "!6m4!4m1!1e1!4m1!1e3!2m2!1i10!2s",
          token |-> Format(token), pb3 |-> PbTail]

\* the two templates of _generate_reviews_url
BuildUrl(business_id, token, tripadvisor_filter) ==
    IF tripadvisor_filter
    THEN [none |-> FALSE, base |-> UrlBase, pb1 |-> "!1m7!1s",
          id |-> business_id,
          pb2 |-> "!6m4!4m1!1e1!4m1!1e3!13i100532569!2m2!1i10!2s",
          token |-> Format(token), pb3 |-> PbTail]
    ELSE [none |-> FALSE, base |-> UrlBase, pb1 |-> "!1m6!1s",
          id |-> business_id,
          pb2 |-> "!6m4!4m1!1e1!4m1!1e3!2m2!1i10!2s",
          token |-> Format(token), pb3 |-> PbTail]

\* (mutant) the pagination token is left out of the URL
generate_reviews_url_NoToken(url, token, tripadvisor_filter) ==
    IF ~validate_url(url) THEN NoUrl
    ELSE IF extract_business_id(url) = NoBusinessId THEN NoUrl
    ELSE BuildUrl(extract_business_id(url), StrV(<<>>), tripadvisor_filter)

generate_reviews_url(url, token, tripadvisor_filter) ==
    IF ~validate_url(url) THEN NoUrl
    ELSE IF extract_business_id(url) = NoBusinessId THEN NoUrl
    ELSE BuildUrl(extract_business_id(url), token, tripadvisor_filter)

---------------------------------------------------------------------------
(* Response bodies, _clean_response_text, json.loads *)

(* A body is a sequence of items: a character, or one whole JSON document  *)
(* (the value it decodes to).  json.loads accepts exactly the bodies made  *)
(* of a single JSON document.                                              *)

Ch(c) == [k |-> "ch", c |-> c, v |-> None]
Json(v) == [k |-> "json", c |-> "", v |-> v]

Chars(cs) == [i \in 1..Len(cs) |-> Ch(cs[i])]

Prefix1 == Chars(<<")", "]", "}", "'", "\n">>)
Prefix2 == Chars(<<")", "]", "}", "'", ":">>)
Prefixes == <<Prefix1, Prefix2>>

StartsWith(text, prefix) ==
    /\ Len(text) >= Len(prefix)
    /\ SubSeq(text, 1, Len(prefix)) = prefix

\* (mutant) prefixes are removed for as long as the text starts with one
RECURSIVE clean_response_text_Every(_)
clean_response_text_Every(response_text) ==
    IF StartsWith(response_text, Prefix1) \/ StartsWith(response_text, Prefix2)
    THEN clean_response_text_Every(SubSeq(response_text, 6, Len(response_text)))
    ELSE response_text

clean_response_text(response_text) ==
    LET hits == {i \in 1..Len(Prefixes) : StartsWith(response_text, Prefixes[i])}
    IN IF hits = {} THEN response_text
       ELSE LET prefix == Prefixes[CHOOSE i \in hits : \A j \in hits : i <= j]
            IN SubSeq(response_text, Len(prefix) + 1, Len(response_text))

\* json.loads raises JSONDecodeError when this is FALSE
JsonDecodes(text) == Len(text) = 1 /\ text[1].k = "json"

JsonLoads(text) == text[1].v

\* the debug log line of _scrape_reviews_batch evaluates
\* len(data[2]) if data and len(data) > 2 and data[2] else 0
DebugLogRaises(data) ==
    /\ Truthy(data)
    /\ \/ ~HasLen(data)
       \/ /\ PyLen(data) > 2
          /\ \/ ~CanIndex(data, 2)
             \/ Truthy(Index(data, 2)) /\ ~HasLen(Index(data, 2))

---------------------------------------------------------------------------
(* The transport: one network attempt and the retry policy of the session *)

\* (mutant) 404 is on the list too
StatusForcelist_With404 == {404, 429, 500, 502, 503, 504}

\* status_forcelist of the Retry strategy
StatusForcelist == {429, 500, 502, 503, 504}

\* an attempt that the Retry strategy of _create_session repeats
Retriable(o) == o.kind # "response" \/ o.status \in StatusForcelist

\* session.get(...) or response.raise_for_status() raises on this final outcome
RequestRaises(o) ==
    \/ o.kind # "response"
    \/ o.status \in StatusForcelist
    \/ o.status >= 400 /\ o.status < 600

\* json.loads raises JSONDecodeError on the body of this final outcome
DecodeFails(o) == ~RequestRaises(o) /\ ~JsonDecodes(clean_response_text(o.text))

\* what _scrape_reviews_batch returns for the final outcome of its request
BatchResult(o) ==
    IF RequestRaises(o) THEN None
    ELSE LET cleaned_text == clean_response_text(o.text)
         IN IF ~JsonDecodes(cleaned_text) THEN None
            ELSE IF DebugLogRaises(JsonLoads(cleaned_text)) THEN None
            ELSE JsonLoads(cleaned_text)

---------------------------------------------------------------------------
(* Inputs: location URLs, raw entries, pages and outcomes of one attempt *)

\* two identifiers, and the text a location URL has before them
BusinessId1 == <<"0", "x", "8", "9", "c", ":", "0", "x", "3", "b">>
BusinessId2 == <<"0", "x", "1", ":", "0", "x", "2">>
PlacePath == <<"/", "p", "/", "d", "=">>

PlaceUrls ==
    { [netloc |-> "www.google.com",
       text |-> PlacePath \o BusinessId2 \o <<"!", "1", "s">> \o BusinessId1],
      [netloc |-> "maps.google.com",
       text |-> PlacePath \o BusinessId2 \o <<"!", "3", "s">> \o BusinessId1],
      [netloc |-> "evil.example.com",
       text |-> PlacePath \o <<"1", "s">> \o BusinessId1],
      [netloc |-> "maps.google.com",
       text |-> PlacePath \o <<"1", "s", "0", "x", "Z", "Z">>] }

D1 == StrV(<<"d", "1">>)
D2 == StrV(<<"d", "2">>)
Cursor1 == StrV(<<"c", "1">>)
Cursor2 == StrV(<<"c", "2">>)

\* review[0][1]: fourteen slots, published_at at 6, [.., source, rating] at 13
Node1(user_node, published_at, source, rating) ==
    List(<<None, None, None, None, user_node, None, published_at,
           None, None, None, None, None, None,
           List(<<None, source, rating>>)>>)

\* an entry with published_at, source and rating; user and content absent
MkEntry(published_at, source, rating) ==
    List(<<List(<<None, Node1(None, published_at, source, rating)>>)>>)

\* an entry with all five fields
FullEntry ==
    List(<<List(<<None,
                  Node1(List(<<None, None, None, None, None,
                               List(<<StrV(<<"a", "n", "n">>)>>)>>),
                        D1, StrV(<<"T","r","i","p","A","d","v","i","s","o","r">>),
                        IntV(5)),
                  List(<<None, None, None, None, None, None, None, None,
                         None, None, None, None, None, None, None,
                         List(<<List(<<StrV(<<"o", "k">>)>>)>>)>>)>>)>>)

Entries1 == <<FullEntry, MkEntry(D2, StrV(<<"G","o","o","g","l","e">>), IntV(4))>>
Entries2 == <<IntV(7), MkEntry(D1, StrV(<<>>), IntV(3))>>
Entries3 == <<MkEntry(D1, StrV(<<"T","R","I","P","A","D","V","I","S","O","R">>), IntV(2)),
              MkEntry(D2, IntV(5), IntV(1))>>
\* entries of another source only
Entries4 == <<MkEntry(D1, StrV(<<"G","o","o","g","l","e">>), IntV(2))>>

Page(cursor, entries) == List(<<None, cursor, List(entries)>>)

Response(status, text) == [kind |-> "response", status |-> status, text |-> text]
Timeout == [kind |-> "timeout", status |-> 0, text |-> <<>>]

\* what one network attempt can end in
Outcomes ==
    << Response(200, Prefix1 \o <<Json(Page(Cursor1, Entries1))>>),
       Response(200, Prefix2 \o <<Json(Page(Cursor2, Entries2))>>),
       Response(200, <<Json(Page(Cursor1, Entries3))>>),
       Response(200, Prefix2 \o <<Json(Page(Cursor2, Entries1))>>),
       Response(200, Prefix1 \o <<Json(Page(None, Entries1))>>),
       Response(200, Prefix1 \o <<Json(Page(StrV(<<>>), Entries2))>>),
       Response(200, Prefix1 \o <<Json(List(<<None, Cursor1>>))>>),
       Response(200, Prefix1 \o <<Json(Page(Cursor1, <<>>))>>),
       Response(200, Prefix1 \o <<Json(List(<<None, Cursor2, None>>))>>),
       Response(200, Prefix1 \o <<Json(None)>>),
       Response(200, <<Json(IntV(5))>>),
       Response(200, Prefix2 \o Chars(<<"<", "h">>)),
       Response(200, Chars(<<"<", "h">>)),
       Response(404, Chars(<<"n", "o">>)),
       Response(503, Chars(<<"n", "o">>)),
       Timeout,
       Response(200, Prefix1 \o <<Json(Page(Cursor2, Entries4))>>),
       Response(200, Prefix1 \o <<Json(Page(IntV(0), Entries2))>>),
       Response(429, Chars(<<"n", "o">>)),
       Response(500, Chars(<<"n", "o">>)),
       Response(502, Chars(<<"n", "o">>)),
       Response(504, Chars(<<"n", "o">>)) >>

---------------------------------------------------------------------------
(* The state of one session *)

VARIABLES
    place_url,          \* argument of scrape_all_reviews
    tripadvisor_only,   \* argument of scrape_all_reviews
    max_pages,          \* argument of scrape_all_reviews: None or an integer
    max_retries,        \* self.max_retries, the ceiling of the Retry strategy
    pc,                 \* position in scrape_all_reviews
    all_reviews,        \* the accumulated records
    pagination_token,
    page_count,
    reviews_url,
    data,               \* what _scrape_reviews_batch returned
    idx,                \* position of the for loop in data[2] (1-based)
    retries,            \* retries the transport made for the current request
    sleeping,           \* the delay _respect_rate_limit is sleeping, 0 if none
    delayed,            \* a rate-limit delay elapsed since the last network attempt
    delays,             \* rate-limit delays of the session
    hist,               \* per finished request: its URL and its final outcome
    debug_calls,        \* texts handed to _save_debug_response
    debug_files,        \* texts _save_debug_response wrote
    main_pc,            \* position in main
    main_reviews,       \* the variable `reviews` of main
    output_file,        \* what save_reviews wrote to the output file
    faults,             \* unexpected errors raised inside _extract_review_data
    page_reviews,       \* records appended from the current page
    last_attempt,       \* what the latest network attempt ended in, 0 if none
    fn,                 \* the method called on its own, "" when none is
    arg,                \* its argument
    res                 \* what it returned

vars == <<place_url, tripadvisor_only, max_pages, max_retries, pc, all_reviews,
          pagination_token, page_count, reviews_url, data, idx, retries,
          sleeping, delayed, delays, hist, debug_calls, debug_files,
          main_pc, main_reviews, output_file, faults, page_reviews,
          last_attempt, fn, arg, res>>

config == <<place_url, tripadvisor_only, max_pages, max_retries>>

\* the state of main around the call of scrape_all_reviews
caller == <<main_pc, main_reviews, output_file>>

\* one call of a method on its own
applied == <<fn, arg, res>>

\* a variable of main that is not bound yet, a file that is not written
Unbound == [bound |-> FALSE, value |-> <<>>]
Bound(reviews) == [bound |-> TRUE, value |-> reviews]

\* delay_range, the default of __init__
DelayMin == 1
DelayMax == 3

\* max_retries, the default of __init__
DefaultMaxRetries == 3

Init ==
    /\ place_url \in PlaceUrls
    /\ tripadvisor_only \in BOOLEAN
    /\ max_pages \in {None} \cup {IntV(k) : k \in 1..MaxPageLimit}
    /\ max_retries \in (0..MaxRetries) \cup {DefaultMaxRetries}
    /\ pc = "top"
    /\ all_reviews = <<>>
    /\ pagination_token = StrV(<<>>)
    /\ page_count = 0
    /\ reviews_url = NoUrl
    /\ data = None
    /\ idx = 1
    /\ retries = 0
    /\ sleeping = 0
    /\ delayed = FALSE
    /\ delays = 0
    /\ hist = <<>>
    /\ debug_calls = <<>>
    /\ debug_files = <<>>
    /\ main_pc = "scraping"
    /\ main_reviews = Unbound
    /\ output_file = Unbound
    /\ faults = 0
    /\ page_reviews = 0
    /\ last_attempt = 0
    /\ fn = ""
    /\ arg = None
    /\ res = None

---------------------------------------------------------------------------
(* scrape_all_reviews, one action per position of the loop *)

\* (mutant) the limit is compared with > instead of >=
LimitReached_OffByOne(limit, count) == Truthy(limit) /\ count > limit.n

\* `if max_pages and page_count >= max_pages`
LimitReached(limit, count) == Truthy(limit) /\ count >= limit.n

\* top of the while loop: the page limit, then _generate_reviews_url
LoopTop ==
    /\ pc = "top"
    /\ \/ /\ LimitReached(max_pages, page_count)
          /\ pc' = "done"
          /\ UNCHANGED reviews_url
       \/ /\ ~LimitReached(max_pages, page_count)
          /\ generate_reviews_url(place_url, pagination_token, tripadvisor_only).none
          /\ reviews_url' = NoUrl
          /\ pc' = "done"
       \/ /\ ~LimitReached(max_pages, page_count)
          /\ ~generate_reviews_url(place_url, pagination_token, tripadvisor_only).none
          /\ Len(hist) < MaxFetches
          /\ reviews_url' =
                 generate_reviews_url(place_url, pagination_token, tripadvisor_only)
          /\ pc' = "batch"
    /\ UNCHANGED <<config, caller, applied, faults, page_reviews, last_attempt, all_reviews, pagination_token, page_count, data, idx,
                   retries, sleeping, delayed, delays, hist, debug_calls,
                   debug_files>>

\* random.uniform(*self.delay_range), on whole time units
DrawDelay == DelayMin..DelayMax

\* _scrape_reviews_batch calls _respect_rate_limit, which draws a delay and sleeps
RespectRateLimit ==
    /\ pc = "batch"
    /\ \E delay \in DrawDelay : sleeping' = delay
    /\ pc' = "sleep"
    /\ UNCHANGED <<config, caller, applied, faults, page_reviews, last_attempt, all_reviews, pagination_token, page_count, reviews_url,
                   data, idx, retries, delayed, delays, hist, debug_calls,
                   debug_files>>

\* time.sleep(delay) returns; session.get is called next
SleepDone ==
    /\ pc = "sleep"
    /\ sleeping' = 0
    /\ delayed' = TRUE
    /\ delays' = delays + 1
    /\ retries' = 0
    /\ pc' = "get"
    /\ UNCHANGED <<config, caller, applied, faults, page_reviews, last_attempt, all_reviews, pagination_token, page_count, reviews_url,
                   data, idx, hist, debug_calls, debug_files>>

\* (mutant) the cleaned text is saved instead of response.text
SavedDebugText_Cleaned(response_text, cleaned_text) == cleaned_text

\* the text _scrape_reviews_batch hands to _save_debug_response
SavedDebugText(response_text, cleaned_text) == response_text

\* one network attempt of session.get that the Retry strategy repeats
Retry ==
    /\ pc = "get"
    /\ \E i \in 1..Len(Outcomes) :
          /\ Retriable(Outcomes[i])
          /\ last_attempt' = i
    /\ retries < max_retries
    /\ retries' = retries + 1
    /\ delayed' = FALSE
    /\ UNCHANGED <<config, caller, applied, faults, page_reviews, pc, all_reviews, pagination_token, page_count,
                   reviews_url, data, idx, sleeping, delays, hist, debug_calls,
                   debug_files>>

\* the last network attempt of session.get and the rest of _scrape_reviews_batch
Fetch ==
    /\ pc = "get"
    /\ \E i \in 1..Len(Outcomes) :
          LET o == Outcomes[i] IN
          /\ Retriable(o) => retries >= max_retries
          /\ last_attempt' = i
          /\ data' = BatchResult(o)
          /\ hist' = Append(hist, [url |-> reviews_url, outcome |-> i])
          /\ IF DecodeFails(o)
             THEN /\ debug_calls' = Append(debug_calls,
                        SavedDebugText(o.text, clean_response_text(o.text)))
                  /\ \E written \in BOOLEAN :
                        debug_files' =
                            IF written
                            THEN Append(debug_files,
                                   SavedDebugText(o.text, clean_response_text(o.text)))
                            ELSE debug_files
             ELSE UNCHANGED <<debug_calls, debug_files>>
    /\ delayed' = FALSE
    /\ idx' = 1
    /\ pc' = "check"
    /\ UNCHANGED <<config, caller, applied, faults, page_reviews, all_reviews, pagination_token, page_count, reviews_url,
                   retries, sleeping, delays>>

\* (mutant) the emptiness of data[2] is not looked at
StopPage_IgnoreEntries(d) ==
    \/ ~Truthy(d)
    \/ PyLen(d) < 3

\* `not data or len(data) < 3 or not data[2]`
StopPage(d) ==
    \/ ~Truthy(d)
    \/ PyLen(d) < 3
    \/ ~Truthy(Index(d, 2))

\* (mutant) a failed batch is tried again instead of ending the loop
AfterBatch_Again(d) ==
    IF ~Truthy(d) THEN "top"
    ELSE IF PyLen(d) < 3 \/ ~Truthy(Index(d, 2)) THEN "done" ELSE "entry"

\* where the loop goes with what _scrape_reviews_batch returned
AfterBatch(d) == IF StopPage(d) THEN "done" ELSE "entry"

CheckPage ==
    /\ pc = "check"
    /\ pc' = AfterBatch(data)
    /\ page_reviews' = IF AfterBatch(data) = "entry" THEN 0 ELSE page_reviews
    /\ UNCHANGED <<config, caller, applied, faults, last_attempt, all_reviews, pagination_token, page_count, reviews_url,
                   data, idx, retries, sleeping, delayed, delays, hist,
                   debug_calls, debug_files>>

\* the values `for raw_review in x` goes through
IterItems(x) ==
    CASE x.t = "list" -> x.l
      [] x.t = "str" -> [i \in 1..Len(x.s) |-> StrV(<<x.s[i]>>)]
      [] x.t = "dict" -> [i \in 1..Len(x.l) |-> StrV(<<"k">>)]
      [] OTHER -> <<>>

RawReviews(d) == IF CanIndex(d, 2) THEN IterItems(Index(d, 2)) ELSE <<>>

\* review_data.source.lower() raises AttributeError
FilterRaises(flag, review_data) ==
    /\ flag
    /\ Truthy(review_data.source)
    /\ review_data.source.t # "str"

\* the `continue` of the client-side source check
FilterDrops(flag, review_data) ==
    /\ flag
    /\ Truthy(review_data.source)
    /\ review_data.source.t = "str"
    /\ Lower(review_data.source.s) # TRIPADVISOR

\* (mutant) the record is put at the front
AppendReview_Front(reviews, review_dict) == <<review_dict>> \o reviews

\* all_reviews.append(review_dict)
AppendReview(reviews, review_dict) == Append(reviews, review_dict)

\* one iteration of `for raw_review in data[2]`
ProcessEntry ==
    /\ pc = "entry"
    /\ idx <= Len(RawReviews(data))
    /\ LET review_data == extract_review_data(RawReviews(data)[idx]) IN
       \/ /\ FilterRaises(tripadvisor_only, review_data)
          /\ pc' = "raised"
          /\ UNCHANGED <<all_reviews, page_reviews, idx>>
       \/ /\ ~FilterRaises(tripadvisor_only, review_data)
          /\ FilterDrops(tripadvisor_only, review_data)
          /\ idx' = idx + 1
          /\ UNCHANGED <<all_reviews, page_reviews, pc>>
       \/ /\ ~FilterRaises(tripadvisor_only, review_data)
          /\ ~FilterDrops(tripadvisor_only, review_data)
          /\ all_reviews' = AppendReview(all_reviews, review_data)
          /\ page_reviews' = page_reviews + 1
          /\ idx' = idx + 1
          /\ UNCHANGED pc
    /\ UNCHANGED <<config, caller, applied, faults, last_attempt, pagination_token, page_count, reviews_url, data,
                   retries, sleeping, delayed, delays, hist, debug_calls,
                   debug_files>>

\* `data[1] if len(data) > 1 else None`
NextToken(d) == IF PyLen(d) > 1 /\ CanIndex(d, 1) THEN Index(d, 1) ELSE None

\* (mutant) a page that added no record ends the loop too
NoMorePages_NothingKept(token) == ~Truthy(token) \/ page_reviews = 0

\* (mutant) only a missing cursor ends the loop
NoMorePages_NoneOnly(token) == token = None

\* `if not pagination_token`
NoMorePages(token) == ~Truthy(token)

\* after the for loop: the next cursor, then page_count += 1
EndPage ==
    /\ pc = "entry"
    /\ idx > Len(RawReviews(data))
    /\ pagination_token' = NextToken(data)
    /\ IF NoMorePages(NextToken(data))
       THEN pc' = "done" /\ UNCHANGED page_count
       ELSE pc' = "top" /\ page_count' = page_count + 1
    /\ UNCHANGED <<config, caller, applied, faults, page_reviews, last_attempt, all_reviews, reviews_url, data, idx, retries, sleeping,
                   delayed, delays, hist, debug_calls, debug_files>>

Next ==
    \/ LoopTop
    \/ RespectRateLimit
    \/ SleepDone
    \/ Retry
    \/ Fetch
    \/ CheckPage
    \/ ProcessEntry
    \/ EndPage

Spec == Init /\ [][Next]_vars

---------------------------------------------------------------------------
(* main around scrape_all_reviews, and an interrupt from outside *)

session == <<config, pc, all_reviews, pagination_token, page_count, reviews_url,
             data, idx, retries, sleeping, delayed, delays, hist, debug_calls,
             debug_files, faults, page_reviews, last_attempt>>

\* the positions of scrape_all_reviews in which its loop is running
Running == pc \in {"top", "batch", "sleep", "get", "check", "entry"}

\* scrape_all_reviews returned: `reviews = ...`, then save_reviews, which
\* writes the file or logs the error and raises it again
MainSave ==
    /\ main_pc = "scraping"
    /\ pc = "done"
    /\ main_reviews' = Bound(all_reviews)
    /\ \E written \in BOOLEAN :
          IF written
          THEN output_file' = Bound(all_reviews) /\ main_pc' = "saved"
          ELSE UNCHANGED output_file /\ main_pc' = "exit1"
    /\ UNCHANGED <<session, applied>>

\* `except Exception` of main: scrape_all_reviews raised
MainError ==
    /\ main_pc = "scraping"
    /\ pc = "raised"
    /\ main_pc' = "exit1"
    /\ UNCHANGED <<session, main_reviews, output_file, applied>>

\* KeyboardInterrupt while the loop is running: no handler of the class
\* catches it (`except Exception` does not), the frame of scrape_all_reviews
\* is unwound and `except KeyboardInterrupt` of main prints and exits.  The
\* variable all_reviews keeps what had been accumulated, for the record; no
\* code can read it any more.
Interrupt ==
    /\ main_pc = "scraping"
    /\ Running
    /\ pc' = "interrupted"
    /\ main_pc' = "exit1"
    /\ UNCHANGED <<config, all_reviews, pagination_token, page_count, reviews_url,
                   data, idx, retries, sleeping, delayed, delays, hist,
                   debug_calls, debug_files, main_reviews, output_file, applied,
                   faults, page_reviews, last_attempt>>

NextMain ==
    \/ Next
    \/ MainSave
    \/ MainError
    \/ Interrupt

SpecMain == Init /\ [][NextMain]_vars

---------------------------------------------------------------------------
(* An unexpected error inside _extract_review_data *)

\* One iteration of the for loop in which the try of _extract_review_data
\* raises an exception that is none of _safe_extract's three (MemoryError,
\* say): `except Exception` logs "Skipping malformed review" and returns
\* ReviewData(None, None, None, None, None); the loop goes on with that
\* record, whose source is None, so the source check lets it through.
ExtractFault ==
    /\ pc = "entry"
    /\ idx <= Len(RawReviews(data))
    /\ faults < MaxFaults
    /\ faults' = faults + 1
    /\ LET review_data == AbsentReview IN
       /\ ~FilterRaises(tripadvisor_only, review_data)
       /\ ~FilterDrops(tripadvisor_only, review_data)
       /\ all_reviews' = AppendReview(all_reviews, review_data)
       /\ page_reviews' = page_reviews + 1
       /\ idx' = idx + 1
    /\ UNCHANGED <<config, caller, applied, last_attempt, pc, pagination_token,
                   page_count, reviews_url, data, retries, sleeping, delayed,
                   delays, hist, debug_calls, debug_files>>

NextFault ==
    \/ Next
    \/ ExtractFault

SpecFault == Init /\ [][NextFault]_vars

---------------------------------------------------------------------------
(* The methods called on their own, on arguments of every shape *)

\* review[0][1] with any slot 13
Node1With(user_node, published_at, slot13) ==
    List(<<None, None, None, None, user_node, None, published_at,
           None, None, None, None, None, None, slot13>>)

\* review[0][2]: sixteen slots, the content at [15][0][0]
Node2With(slot15) ==
    List(<<None, None, None, None, None, None, None, None,
           None, None, None, None, None, None, None, slot15>>)

UserNodes ==
    { None,
      StrV(<<"u">>),
      List(<<None, None, None, None, None>>),
      List(<<None, None, None, None, None, List(<<>>)>>),
      List(<<None, None, None, None, None, List(<<StrV(<<"a", "n", "n">>)>>)>>) }

Slot13s ==
    { None,
      IntV(4),
      List(<<>>),
      List(<<IntV(5)>>),
      List(<<StrV(<<"G">>), IntV(4)>>),
      List(<<None, StrV(<<"T">>), IntV(5)>>) }

Slot15s ==
    { None,
      List(<<>>),
      List(<<List(<<>>)>>),
      List(<<IntV(1)>>),
      List(<<List(<<StrV(<<"o", "k">>)>>)>>) }

\* raw entries: every combination of the nodes above, and entries cut short
RawEntries ==
    { List(<<List(<<None, Node1With(u, p, s13), Node2With(s15)>>)>>) :
         u \in UserNodes, p \in {None, D1}, s13 \in Slot13s, s15 \in Slot15s }
    \cup { List(<<List(<<None, Node1With(u, D2, s13)>>)>>) :
              u \in UserNodes, s13 \in Slot13s }
    \cup { None, IntV(7), StrV(<<"x">>), Dict(<<IntV(1)>>), List(<<>>),
           List(<<None>>), List(<<IntV(3)>>), List(<<List(<<>>)>>),
           List(<<List(<<None>>)>>), List(<<List(<<None, IntV(3)>>)>>),
           List(<<List(<<None, List(<<None, None, None, None, None, None, D1>>),
                         StrV(<<"x">>)>>)>>),
           List(<<Dict(<<IntV(1)>>)>>) }

\* what a response body can start with, and what can follow
BodyHeads == {Prefix1, Prefix2, Chars(<<")", "]", "}", "'">>), Chars(<<"x">>)}
BodyTails ==
    { <<Json(None)>>, <<Json(IntV(5))>>, <<Json(List(<<None, Cursor1>>))>>,
      <<Json(Page(Cursor1, Entries1))>>, <<>>, Chars(<<"<", "h">>) }

ResponseTexts ==
    BodyTails
    \cup { h \o t : h \in BodyHeads, t \in BodyTails }
    \cup { h1 \o h2 \o t : h1 \in BodyHeads, h2 \in BodyHeads, t \in BodyTails }

\* pieces of URL text: the marker, identifiers, and what is almost one
UrlPieces ==
    { <<"1", "s">>, BusinessId2, <<"0", "x", "a", ":", "0", "x", "b", "f">>,
      <<"0", "x">>, <<"1">>, <<"s">>, <<":", "0", "x", "3">>, <<"/">>,
      <<"0", "x", "g", ":", "0", "x", "1">> }

UrlTexts ==
    {<<>>}
    \cup UrlPieces
    \cup { x \o y : x \in UrlPieces, y \in UrlPieces }
    \cup { x \o y \o z : x \in UrlPieces, y \in UrlPieces, z \in UrlPieces }

\* nodes and index paths for _safe_extract
Nodes ==
    { None, IntV(7), StrV(<<"a", "b">>), Dict(<<IntV(1), IntV(2)>>),
      List(<<>>), List(<<IntV(1)>>), List(<<IntV(1), IntV(2)>>),
      List(<<List(<<IntV(1), IntV(2)>>), None, List(<<IntV(3)>>)>>),
      List(<<StrV(<<"G">>), IntV(4)>>) }

Keys == {-3, -2, -1, 0, 1, 2}

IndexPaths ==
    {<<>>} \cup { <<i>> : i \in Keys } \cup { <<i, j>> : i \in Keys, j \in Keys }

Calls ==
    { [fn |-> "_extract_review_data", arg |-> e] : e \in RawEntries }
    \cup { [fn |-> "_safe_extract", arg |-> [data |-> d, path |-> q]] :
              d \in Nodes, q \in IndexPaths }
    \cup { [fn |-> "_extract_business_id",
            arg |-> [netloc |-> "www.google.com", text |-> t]] : t \in UrlTexts }
    \cup { [fn |-> "_clean_response_text", arg |-> t] : t \in ResponseTexts }

\* the session is not started; one method is about to be called
InitFn ==
    /\ \E c \in Calls : fn = c.fn /\ arg = c.arg
    /\ res = None
    /\ pc = "call"
    /\ place_url = CHOOSE u \in PlaceUrls : validate_url(u)
    /\ tripadvisor_only = FALSE
    /\ max_pages = None
    /\ max_retries = 0
    /\ all_reviews = <<>>
    /\ pagination_token = StrV(<<>>)
    /\ page_count = 0
    /\ reviews_url = NoUrl
    /\ data = None
    /\ idx = 1
    /\ retries = 0
    /\ sleeping = 0
    /\ delayed = FALSE
    /\ delays = 0
    /\ hist = <<>>
    /\ debug_calls = <<>>
    /\ debug_files = <<>>
    /\ main_pc = "scraping"
    /\ main_reviews = Unbound
    /\ output_file = Unbound
    /\ faults = 0
    /\ page_reviews = 0
    /\ last_attempt = 0

CallExtractReviewData ==
    /\ pc = "call"
    /\ fn = "_extract_review_data"
    /\ res' = extract_review_data(arg)
    /\ pc' = "return"
    /\ UNCHANGED <<config, all_reviews, pagination_token, page_count, reviews_url,
                   data, idx, retries, sleeping, delayed, delays, hist,
                   debug_calls, debug_files, caller, faults, page_reviews,
                   last_attempt, fn, arg>>

CallCleanResponseText ==
    /\ pc = "call"
    /\ fn = "_clean_response_text"
    /\ res' = clean_response_text(arg)
    /\ pc' = "return"
    /\ UNCHANGED <<config, all_reviews, pagination_token, page_count, reviews_url,
                   data, idx, retries, sleeping, delayed, delays, hist,
                   debug_calls, debug_files, caller, faults, page_reviews,
                   last_attempt, fn, arg>>

CallExtractBusinessId ==
    /\ pc = "call"
    /\ fn = "_extract_business_id"
    /\ res' = extract_business_id(arg)
    /\ pc' = "return"
    /\ UNCHANGED <<config, all_reviews, pagination_token, page_count, reviews_url,
                   data, idx, retries, sleeping, delayed, delays, hist,
                   debug_calls, debug_files, caller, faults, page_reviews,
                   last_attempt, fn, arg>>

CallSafeExtract ==
    /\ pc = "call"
    /\ fn = "_safe_extract"
    /\ res' = safe_extract(arg.data, arg.path)
    /\ pc' = "return"
    /\ UNCHANGED <<config, all_reviews, pagination_token, page_count, reviews_url,
                   data, idx, retries, sleeping, delayed, delays, hist,
                   debug_calls, debug_files, caller, faults, page_reviews,
                   last_attempt, fn, arg>>

NextFn ==
    \/ CallExtractReviewData
    \/ CallSafeExtract
    \/ CallExtractBusinessId
    \/ CallCleanResponseText

SpecFn == InitFn /\ [][NextFn]_vars

---------------------------------------------------------------------------
(* What the properties below speak of *)

\* the final outcome of the i-th request of the session
HistOutcome(i) == Outcomes[hist[i].outcome]

\* the decoded page of the i-th request, None when there is none
PageOf(i) == BatchResult(HistOutcome(i))

\* a page with at least three slots whose slot 2 is a non-empty list of entries
HasEntries(d) ==
    /\ d.t = "list"
    /\ Len(d.l) >= 3
    /\ d.l[3].t = "list"
    /\ d.l[3].l # <<>>

\* a page that is absent, has fewer than 3 slots, or has an empty or absent slot 2
IsEmptyPage(d) ==
    \/ d = None
    \/ d.t = "list" /\ Len(d.l) < 3
    \/ d.t = "list" /\ Len(d.l) >= 3 /\ d.l[3] \in {None, List(<<>>)}

\* slot 1 of a page with entries
Slot1(d) == d.l[2]

\* a non-empty cursor string in slot 1
HasCursor(d) == Slot1(d).t = "str" /\ Slot1(d).s # <<>>

EntriesOf(d) == IF HasEntries(d) THEN d.l[3].l ELSE <<>>

\* the records of the entries the client-side source check lets through, in order
RECURSIVE KeptRecords(_, _)
KeptRecords(flag, entries) ==
    IF entries = <<>> THEN <<>>
    ELSE (IF FilterDrops(flag, extract_review_data(Head(entries)))
          THEN <<>>
          ELSE <<extract_review_data(Head(entries))>>)
         \o KeptRecords(flag, Tail(entries))

\* the records of pages 1..n of the session, page after page
RECURSIVE RecordsThrough(_)
RecordsThrough(n) ==
    IF n = 0 THEN <<>>
    ELSE RecordsThrough(n - 1) \o KeptRecords(tripadvisor_only, EntriesOf(PageOf(n)))

\* the text is 0x<hex>:0x<hex> from its first to its last character
IsIdToken(t) ==
    /\ Len(t) >= 7
    /\ t[1] = "0"
    /\ t[2] = "x"
    /\ \E a \in 1..(Len(t) - 6) :
          /\ \A k \in 3..(a + 2) : t[k] \in HexChars
          /\ SubSeq(t, a + 3, a + 5) = <<":", "0", "x">>
          /\ \A k \in (a + 6)..Len(t) : t[k] \in HexChars

\* the lengths of the identifier tokens that start at position i of the text
TokenLengthsAt(text, i) ==
    {n \in 1..(Len(text) - i + 1) : IsIdToken(SubSeq(text, i, i + n - 1))}

TokenOccursAt(text, i) == TokenLengthsAt(text, i) # {}

\* the identifier token at position i, all of its hex digits included
TokenAt(text, i) ==
    LET n == CHOOSE n \in TokenLengthsAt(text, i) :
                 \A m \in TokenLengthsAt(text, i) : m <= n
    IN SubSeq(text, i, i + n - 1)

\* the marker 1s at position i with an identifier token right after it
MarkerOccursAt(text, i) ==
    /\ i + 1 <= Len(text)
    /\ text[i] = "1"
    /\ text[i + 1] = "s"
    /\ TokenOccursAt(text, i + 2)

UrlUsable == validate_url(place_url) /\ extract_business_id(place_url) # NoBusinessId

Returned == pc = "done"

---------------------------------------------------------------------------
(* C1: whatever the server answers, scrape_all_reviews returns the records *)
(* accumulated so far and never raises an error to its caller.  Stated as: *)
(* the session is never in the position where an exception has left        *)
(* scrape_all_reviews.  Violated: with the source filter on, an entry      *)
(* whose source is a non-string truthy value makes .lower() raise.         *)
C1_NeverRaises == pc # "raised"

---------------------------------------------------------------------------
(* C2: in every state the accumulated sequence is the concatenation, in    *)
(* page-fetch order, of the kept records of every processed page followed  *)
(* by those of the entries of the current page processed so far, in slot-2 *)
(* order; and every step leaves the sequence alone or extends it at its    *)
(* end.                                                                    *)
AccumulatedInOrder ==
    all_reviews =
        IF hist = <<>> THEN <<>>
        ELSE RecordsThrough(Len(hist) - 1)
             \o KeptRecords(tripadvisor_only,
                            SubSeq(EntriesOf(PageOf(Len(hist))), 1, idx - 1))

OnlyAppended ==
    /\ Len(all_reviews') >= Len(all_reviews)
    /\ SubSeq(all_reviews', 1, Len(all_reviews)) = all_reviews

C2_OrderPreserved == []AccumulatedInOrder /\ [][OnlyAppended]_vars

\* two pages were processed, the second one partly, and the filter dropped a record
C2_Witness ==
    /\ Len(hist) = 2
    /\ pc = "entry"
    /\ idx = 2
    /\ tripadvisor_only
    /\ Len(all_reviews) = 2
    /\ all_reviews[1] # all_reviews[2]

---------------------------------------------------------------------------
(* C3: with a page limit L >= 1 no session starts more than L page         *)
(* fetches; and when, for a usable URL, the loop returns after pages that  *)
(* all held entries and a cursor, it has fetched exactly L pages and       *)
(* returns exactly their records.                                          *)
AllPagesContinue ==
    \A i \in 1..Len(hist) : HasEntries(PageOf(i)) /\ HasCursor(PageOf(i))

C3_PageLimit ==
    Truthy(max_pages) =>
        /\ delays <= max_pages.n
        /\ Len(hist) <= max_pages.n
        /\ (Returned /\ UrlUsable /\ AllPagesContinue) =>
               /\ Len(hist) = max_pages.n
               /\ all_reviews = RecordsThrough(max_pages.n)

\* limit 2, two continuing pages fetched, their records returned
C3_Witness ==
    /\ Returned
    /\ max_pages = IntV(2)
    /\ Len(hist) = 2
    /\ AllPagesContinue
    /\ Len(all_reviews) >= 3

---------------------------------------------------------------------------
(* C4: with no page limit, a fetched page that is absent, has fewer than   *)
(* 3 slots or has an empty or absent slot 2 is the last page of the        *)
(* session: no fetch is started after it (cursor or not), and the records  *)
(* are those of the pages before it only.                                  *)
C4_StopsAtEmptyPage ==
    max_pages = None =>
        \A k \in 1..Len(hist) :
            IsEmptyPage(PageOf(k)) =>
                /\ k = Len(hist)
                /\ delays = k
                /\ pc \in {"check", "done"}
                /\ all_reviews = RecordsThrough(k - 1)
                /\ \A i \in 1..(k - 1) :
                       HasEntries(PageOf(i)) /\ HasCursor(PageOf(i))

\* page 3 has a cursor and an empty slot 2; the loop returned pages 1-2
C4_Witness ==
    /\ Returned
    /\ max_pages = None
    /\ Len(hist) = 3
    /\ PageOf(3) = Page(Cursor1, <<>>)
    /\ all_reviews = RecordsThrough(2)
    /\ all_reviews # <<>>

---------------------------------------------------------------------------
(* C5: the first request carries the empty cursor, the request for page    *)
(* N+1 carries exactly the string in slot 1 of page N; a page with entries *)
(* and an absent slot 1 is the last one fetched, and when the loop returns *)
(* after it its records have been appended.                                *)
RequestToken(i) == hist[i].url.token

\* the characters of the string in slot 1 of a page
CursorText(d) ==
    IF d.t = "list" /\ Len(d.l) >= 2 /\ d.l[2].t = "str" THEN d.l[2].s
    ELSE <<"no cursor string">>

C5_CursorForwarded ==
    /\ \A i \in 1..Len(hist) :
           RequestToken(i) = IF i = 1 THEN <<>> ELSE CursorText(PageOf(i - 1))
    /\ pc \in {"batch", "sleep", "get"} =>
           reviews_url.token =
               IF hist = <<>> THEN <<>> ELSE CursorText(PageOf(Len(hist)))
    /\ \A i \in 1..Len(hist) :
           (HasEntries(PageOf(i)) /\ Slot1(PageOf(i)) = None) =>
               /\ i = Len(hist)
               /\ delays = i
               /\ pc \in {"check", "entry", "raised", "done"}
               /\ Returned => all_reviews = RecordsThrough(i)

\* page 2 was requested with the cursor of page 1 and has no cursor itself
C5_Witness ==
    /\ Returned
    /\ Len(hist) = 2
    /\ CursorText(PageOf(1)) = <<"c", "2">>
    /\ RequestToken(2) = <<"c", "2">>
    /\ HasEntries(PageOf(2))
    /\ Slot1(PageOf(2)) = None
    /\ Len(all_reviews) > Len(KeptRecords(tripadvisor_only, EntriesOf(PageOf(1))))

---------------------------------------------------------------------------
(* C6: with the source filter enabled a record is dropped if and only if   *)
(* its source is present and does not equal "tripadvisor" ignoring case;   *)
(* with the filter disabled no record is dropped.  Stated on every         *)
(* iteration of the for loop.  Violated: a present empty source is kept,   *)
(* and a present non-string source ends the session with an exception.     *)
SourcePresent(src) == src # None

EqualsTripadvisor(src) == src.t = "str" /\ Lower(src.s) = TRIPADVISOR

C6_DroppedIff ==
    [][ (pc = "entry" /\ idx <= Len(EntriesOf(data))) =>
          LET review_data == extract_review_data(EntriesOf(data)[idx])
              shouldDrop == /\ tripadvisor_only
                            /\ SourcePresent(review_data.source)
                            /\ ~EqualsTripadvisor(review_data.source)
          IN IF shouldDrop
             THEN idx' = idx + 1 /\ all_reviews' = all_reviews
             ELSE idx' = idx + 1 /\ all_reviews' = Append(all_reviews, review_data)
      ]_vars

---------------------------------------------------------------------------
(* C7: a rate-limit delay precedes every network fetch attempt: whenever   *)
(* the session is about to make a network attempt, a rate-limit delay has  *)
(* elapsed since the previous attempt.  Violated: the attempts the Retry   *)
(* strategy repeats inside session.get follow one another with no          *)
(* rate-limit delay between them.                                          *)
C7_DelayBeforeEveryAttempt == pc = "get" => delayed

---------------------------------------------------------------------------
(* C8: a page fetch that fails (timeout, or a non-2xx status once the      *)
(* retry policy is exhausted) is the last of the session: no fetch is      *)
(* started after it, the loop goes to its end, and the records are exactly *)
(* those of the pages before it.                                           *)
FetchFailed(o) == o.kind # "response" \/ o.status \notin 200..299

---------------------------------------------------------------------------
(* C9: a body that fails to parse is handed unmodified (prefix included)   *)
(* to the debug side channel, the page counts as empty, so the loop stops  *)
(* and returns the records accumulated before it, whether or not the       *)
(* artifact could be written; nothing else is handed to the side channel,  *)
(* so it is used at most once per session.                                 *)
Unparsable(o) ==
    /\ o.kind = "response"
    /\ o.status \in 200..299
    /\ \A cut \in {0, Len(Prefix1)} :
           \/ Len(o.text) # cut + 1
           \/ o.text[cut + 1].k # "json"
           \/ cut > 0 /\ SubSeq(o.text, 1, cut) \notin {Prefix1, Prefix2}

RECURSIVE UnparsableTexts(_)
UnparsableTexts(n) ==
    IF n = 0 THEN <<>>
    ELSE UnparsableTexts(n - 1)
         \o (IF Unparsable(HistOutcome(n)) THEN <<HistOutcome(n).text>> ELSE <<>>)

C9_DebugSideChannel ==
    /\ debug_calls = UnparsableTexts(Len(hist))
    /\ Len(debug_calls) <= 1
    /\ debug_files \in {<<>>, debug_calls}
    /\ \A k \in 1..Len(hist) :
           Unparsable(HistOutcome(k)) =>
               /\ k = Len(hist)
               /\ delays = k
               /\ data = None
               /\ pc \in {"check", "done"}
               /\ all_reviews = RecordsThrough(k - 1)

\* page 2 came with a prefix and did not parse, the artifact could not be written
C9_Witness ==
    /\ Returned
    /\ Len(hist) = 2
    /\ debug_calls = <<Prefix2 \o Chars(<<"<", "h">>)>>
    /\ debug_files = <<>>
    /\ all_reviews = RecordsThrough(1)
    /\ all_reviews # <<>>

---------------------------------------------------------------------------
(* C10: when the host of the input URL is not in the allow-list or the URL *)
(* holds no business identifier, the session ends before any network       *)
(* fetch: no fetch, no rate-limit delay, an empty result, no exception.    *)
InvalidDomain == place_url.netloc \notin {"maps.google.com", "www.google.com"}

IdentifierNotFound == ~\E i \in 1..Len(place_url.text) : TokenOccursAt(place_url.text, i)

C10_NoFetchWithoutUrl ==
    (InvalidDomain \/ IdentifierNotFound) =>
        /\ hist = <<>>
        /\ delays = 0
        /\ sleeping = 0
        /\ all_reviews = <<>>
        /\ pc \in {"top", "done"}

\* the session of a URL on a foreign host has returned
C10_Witness ==
    /\ Returned
    /\ InvalidDomain
    /\ ~IdentifierNotFound
    /\ all_reviews = <<>>

\* C11: when an interrupt arrives while the loop is running, no further fetch
\* is started and the records accumulated up to that point are in the hands of
\* the caller (bound to its variable or written to its file), not discarded
C11_InterruptKeepsRecords ==
    pc = "interrupted" /\ all_reviews # <<>> =>
        /\ ~ENABLED Fetch
        /\ \/ main_reviews = Bound(all_reviews)
           \/ output_file = Bound(all_reviews)

PrefixedJson(text, prefix) ==
    /\ Len(text) = Len(prefix) + 1
    /\ StartsWith(text, prefix)
    /\ text[Len(text)].k = "json"

\* C13: a known prefix followed by a valid JSON text decodes to what the JSON
\* text decodes to on its own; a text that starts with neither prefix is left
\* as it is; and never more than one prefix is removed
C13_PrefixStripped ==
    pc = "return" /\ fn = "_clean_response_text" =>
        /\ \A i \in 1..Len(Prefixes) :
              PrefixedJson(arg, Prefixes[i]) =>
                  LET J == <<arg[Len(arg)]>> IN
                  /\ JsonDecodes(res)
                  /\ JsonDecodes(clean_response_text(J))
                  /\ JsonLoads(res) = JsonLoads(clean_response_text(J))
        /\ (\A i \in 1..Len(Prefixes) : ~StartsWith(arg, Prefixes[i])) => res = arg
        /\ \A i \in 1..Len(Prefixes) :
              StartsWith(arg, Prefixes[i]) =>
                  res = SubSeq(arg, Len(Prefixes[i]) + 1, Len(arg))

\* the second prefix before a page was removed and the page decodes
C13_Witness ==
    /\ pc = "return"
    /\ fn = "_clean_response_text"
    /\ PrefixedJson(arg, Prefix2)
    /\ JsonDecodes(res)
    /\ HasEntries(JsonLoads(res))

\* the first marker occurrence and the first token occurrence of a text
FirstMarker(text) ==
    CHOOSE i \in 1..Len(text) :
        MarkerOccursAt(text, i) /\ \A j \in 1..(i - 1) : ~MarkerOccursAt(text, j)

FirstToken(text) ==
    CHOOSE i \in 1..Len(text) :
        TokenOccursAt(text, i) /\ \A j \in 1..(i - 1) : ~TokenOccursAt(text, j)

\* C14: when the URL holds the marker 1s right before an identifier token,
\* _extract_business_id returns the token of the first such marker, even if a
\* bare token stands earlier; with no such marker but a bare token it returns
\* the first bare token; with neither it returns None
C14_BusinessId ==
    pc = "return" /\ fn = "_extract_business_id" =>
        LET text == arg.text IN
        IF \E i \in 1..Len(text) : MarkerOccursAt(text, i)
        THEN res = TokenAt(text, FirstMarker(text) + 2)
        ELSE IF \E i \in 1..Len(text) : TokenOccursAt(text, i)
        THEN res = TokenAt(text, FirstToken(text))
        ELSE res = NoBusinessId

\* a bare token stands before the first marker, and the marker's token came back
C14_Witness ==
    /\ pc = "return"
    /\ fn = "_extract_business_id"
    /\ \E i \in 1..Len(arg.text) : MarkerOccursAt(arg.text, i)
    /\ FirstToken(arg.text) < FirstMarker(arg.text)
    /\ res = TokenAt(arg.text, FirstMarker(arg.text) + 2)
    /\ res # TokenAt(arg.text, FirstToken(arg.text))

\* the index is in range for a sequence of that length: -len <= i < len
InRange(i, length) == -length <= i /\ i < length

\* the element the indices reach when applied one after the other, counting
\* negative indices from the end; None when a step meets a node that is no
\* sequence or an index out of range
RECURSIVE Reached(_, _)
Reached(node, path) ==
    IF path = <<>> THEN node
    ELSE IF node.t = "list" /\ InRange(Head(path), Len(node.l))
    THEN Reached(node.l[IF Head(path) >= 0 THEN Head(path) + 1
                                           ELSE Len(node.l) + Head(path) + 1],
                 Tail(path))
    ELSE None

\* C15: for every node and every index path _safe_extract returns the element
\* reached by applying the indices in turn, negative ones counting from the
\* end, whenever every step finds a sequence with the index in range
\* (-len <= i < len), and None exactly when some step does not
C15_SafeExtractReaches ==
    pc = "return" /\ fn = "_safe_extract" => res = Reached(arg.data, arg.path)

\* C16: an entry whose extraction raises an unexpected error is skipped: it
\* adds no record to the accumulated sequence, and the loop moves on to the
\* next entry of the page
C16_FaultyEntrySkipped ==
    [][faults' > faults =>
          /\ all_reviews' = all_reviews
          /\ idx' = idx + 1
          /\ pc' = "entry"]_vars

\* the latest network attempt ended in one of the five statuses or in a
\* timeout or transport error
EndedRetriably(i) ==
    \/ Outcomes[i].kind = "timeout"
    \/ Outcomes[i].kind = "response" /\ Outcomes[i].status \in {429, 500, 502, 503, 504}

\* the latest network attempt ended in another status that is not 2xx
EndedInOtherError(i) ==
    /\ Outcomes[i].kind = "response"
    /\ Outcomes[i].status \notin {429, 500, 502, 503, 504}
    /\ Outcomes[i].status \notin 200..299

AttemptsBounded == retries <= max_retries

RetryPolicyStep ==
    /\ retries' = retries + 1 => EndedRetriably(last_attempt')
    /\ pc = "get" /\ EndedInOtherError(last_attempt') =>
           pc' = "check" /\ data' = None /\ retries' = retries
    /\ pc = "get" /\ pc' = "check" /\ EndedRetriably(last_attempt') =>
           retries = max_retries /\ data' = None

WithoutCursor(url) == [url EXCEPT !.token = <<>>]

\* the template a request URL was built from
UsesFilterTemplate(url) == url.pb1 = "!1m7!1s"

SameIdentifierAndTemplate ==
    \A i \in 1..Len(hist) :
        /\ hist[i].url.id = extract_business_id(place_url)
        /\ UsesFilterTemplate(hist[i].url) = tripadvisor_only
        /\ \A j \in 1..Len(hist) :
              WithoutCursor(hist[i].url) = WithoutCursor(hist[j].url)

BuildingChangesNoState ==
    /\ UNCHANGED <<place_url, tripadvisor_only>>
    /\ reviews_url' # reviews_url =>
           UNCHANGED <<pagination_token, page_count, all_reviews>>

\* C18: within a session the business identifier and the source-filter flag
\* never change: every request URL holds the identifier of the location URL
\* and is built from the template the flag selects, two request URLs differ
\* in their cursor at most, and building a URL leaves the cursor, page_count
\* and the accumulated reviews as they are
C18_SessionConstants == []SameIdentifierAndTemplate /\ [][BuildingChangesNoState]_vars

\* a filtered session made two requests with different cursors
C18_Witness ==
    /\ Len(hist) >= 2
    /\ tripadvisor_only
    /\ hist[1].url.token # hist[2].url.token
    /\ hist[2].url.id = BusinessId1
    /\ UsesFilterTemplate(hist[2].url)

\* the i-th request got a page with entries whose slot 1 is falsy
FalsyCursorPage(i) ==
    /\ HasEntries(PageOf(i))
    /\ ~Truthy(Slot1(PageOf(i)))

\* C19: the empty cursor is sent in the first request of a session only; a
\* page whose slot 1 is the empty string or another falsy value ends the
\* loop like a missing cursor does, so no request follows it and the first
\* page is not asked for a second time
C19_EmptyCursorOnlyFirst ==
    /\ \A i \in 1..Len(hist) : (hist[i].url.token = <<>>) <=> (i = 1)
    /\ \A i \in 1..Len(hist) :
          FalsyCursorPage(i) =>
              /\ i = Len(hist)
              /\ pc \in {"check", "entry", "done", "raised"}

\* a second page with an empty-string cursor was processed and the session
\* returned
C19_Witness ==
    /\ Returned
    /\ Len(hist) = 2
    /\ FalsyCursorPage(2)
    /\ Slot1(PageOf(2)) = StrV(<<>>)
    /\ pagination_token = StrV(<<>>)

\* the for loop over the entries of the current page is exhausted
PageExhausted == pc = "entry" /\ idx > Len(EntriesOf(data))

\* the source filter dropped every entry of the page
AllDropped(d) == HasEntries(d) /\ KeptRecords(tripadvisor_only, EntriesOf(d)) = <<>>

\* the page limit is set and reached
LimitHit == max_pages # None /\ page_count >= max_pages.n

\* an exhausted page of dropped entries only has added nothing
NothingAppended ==
    PageExhausted /\ AllDropped(data) =>
        /\ page_reviews = 0
        /\ all_reviews = RecordsThrough(Len(hist) - 1)

\* what follows an exhausted page is decided by its slot 1, and what
\* follows at the top of the loop by the page limit
ContinueByPageAndLimit ==
    /\ PageExhausted =>
           IF Truthy(Slot1(data))
           THEN /\ pc' = "top"
                /\ page_count' = page_count + 1
                /\ pagination_token' = Slot1(data)
           ELSE pc' = "done"
    /\ pc = "top" /\ hist # <<>> /\ ~LimitHit =>
           /\ pc' = "batch"
           /\ reviews_url'.token = CursorText(PageOf(Len(hist)))

\* C20: whether the loop goes on depends on the raw page (entries in slot 2,
\* a cursor in slot 1) and on the page limit, not on how many records the
\* source filter let through: a page whose entries are all dropped appends
\* nothing, page_count still grows by one, and the next page is requested
\* with the cursor of that page
C20_ContinueIgnoresFilter == []NothingAppended /\ [][ContinueByPageAndLimit]_vars

\* the first page had entries of another source only; the second request
\* carried its cursor
C20_Witness ==
    /\ Len(hist) = 2
    /\ tripadvisor_only
    /\ AllDropped(PageOf(1))
    /\ hist[2].url.token = CursorText(PageOf(1))
    /\ page_count = 1
    /\ pc = "check"
    /\ all_reviews = <<>>

=============================================================================
